---- MODULE Spec2Model ----
(***************************************************************************)
(* A model of pvi's screen layout engine and template catalogs             *)
(* (src/src/pvi/_format/utils.py): Bounds arithmetic, the Screen layout    *)
(* walk (screen / group / component / make_component_widgets), the         *)
(* formatting of the factory tree, and the EDL / ADL / BOB templates.      *)
(***************************************************************************)
EXTENDS Integers, Sequences, FiniteSets, TLC

VARIABLES
    layout,          \* Screen.layout: the LayoutProperties of this Screen
    fmt,             \* what from_template was given: template flavour, sized, make_widgets
    components,      \* Screen.components: name -> last component seen with that name
    widget_bounds,   \* screen(): the cursor Bounds shared by the top level leaf components
    screen_widgets,  \* screen(): the top level factories placed so far
    columns,         \* screen(): x -> bottom y, an insertion ordered dict
    pc,              \* position of the run: layout, built, formatted, error
    err,             \* the exception that ended the run ("none" while it runs)
    inputs,          \* the top level components handed to screen() so far
    last,            \* what the last loop iteration of screen() did (history)
    root,            \* the factory screen() returned
    texts,           \* the list format() returned
    run,             \* 1: first screen()+format(); 2: the same again on the same Screen
    limit,           \* how many top level components this behaviour may hand in
    out1,            \* outcome of the first run, kept for the comparison
    doc,             \* templates: the template document
    catalog,         \* templates: the catalog built from doc by __init__
    held,            \* templates: the fragments search() returned, by search key
    tres,            \* templates: the result of the last search() / set() call
    sp               \* Bounds.split: the receiver, the arguments and the result

vars == <<layout, fmt, components, widget_bounds, screen_widgets, columns, pc, err,
          inputs, last, root, texts, run, limit, out1, doc, catalog, held, tres, sp>>

layoutVars == <<layout, fmt, components, widget_bounds, screen_widgets, columns, pc,
                err, inputs, last, root, texts, run, limit, out1>>
templateVars == <<doc, catalog, held, tres>>

----------------------------------------------------------------------------
(* Bounds *)

Bounds(x, y, w, h) == [x |-> x, y |-> y, w |-> w, h |-> h]

copy(b) == Bounds(b.x, b.y, b.w, b.h)

NoBounds == Bounds(0, 0, 0, 0)

\* Faulty variant of split: the assert lets a width that uses up all of self pass
split_le(self, width, spacing) ==
    LET to_split == width + spacing IN
    IF to_split <= self.w
    THEN [err |-> "none",
          left |-> Bounds(self.x, self.y, width, self.h),
          right |-> Bounds(self.x + to_split, self.y, self.w - to_split, self.h),
          self |-> self]
    ELSE [err |-> "AssertionError", left |-> NoBounds, right |-> NoBounds,
          self |-> self]

\* Faulty variant of split: the right rectangle starts where the left one ends,
\* the spacing between the two is lost.
split_no_gap(self, width, spacing) ==
    LET to_split == width + spacing IN
    IF to_split < self.w
    THEN [err |-> "none",
          left |-> Bounds(self.x, self.y, width, self.h),
          right |-> Bounds(self.x + width, self.y, self.w - width, self.h),
          self |-> self]
    ELSE [err |-> "AssertionError", left |-> NoBounds, right |-> NoBounds,
          self |-> self]

\* Bounds.split: the assert, then the two new rectangles; self is not written to.
split(self, width, spacing) ==
    LET to_split == width + spacing IN
    IF to_split < self.w
    THEN [err |-> "none",
          left |-> Bounds(self.x, self.y, width, self.h),
          right |-> Bounds(self.x + to_split, self.y, self.w - to_split, self.h),
          self |-> self]
    ELSE [err |-> "AssertionError", left |-> NoBounds, right |-> NoBounds,
          self |-> self]

added_to(self, bounds) ==
    Bounds(self.x + bounds.x, self.y + bounds.y, self.w + bounds.w, self.h + bounds.h)

\* with_title(spacing, title_height) is the bound method added_to of a margin
with_title(spacing, title_height, bounds) ==
    added_to(Bounds(spacing, spacing + title_height, 2 * spacing,
                    2 * spacing + title_height), bounds)

\* Python's int(n / 2): true division, then truncation towards zero
IntHalf(n) == IF n >= 0 THEN n \div 2 ELSE -((-n) \div 2)

\* the sized callable given to from_template: Bounds.copy or with_title(...)
sized(fn, bounds) ==
    IF fn.name = "with_title"
    THEN with_title(fn.spacing, fn.title_height, bounds)
    ELSE copy(bounds)

SizedCopy == [name |-> "copy", spacing |-> 0, title_height |-> 0]
SizedTitle(s, t) == [name |-> "with_title", spacing |-> s, title_height |-> t]

----------------------------------------------------------------------------
(* Components (pvi.device, read only input) and widget factories *)

NoWidget == [cls |-> "None", lines |-> 0]
TextRead(lines) == [cls |-> "TextRead", lines |-> lines]
TextWrite(lines) == [cls |-> "TextWrite", lines |-> lines]
LED == [cls |-> "LED", lines |-> 0]
CheckBox == [cls |-> "CheckBox", lines |-> 0]
ComboBox == [cls |-> "ComboBox", lines |-> 0]

NoLayout == [type |-> "None", labelled |-> FALSE]
Grid(labelled) == [type |-> "Grid", labelled |-> labelled]
Plot == [type |-> "Plot", labelled |-> FALSE]

Comp(kind, name, pv, widget, read_pv, read_widget, children, lay) ==
    [kind |-> kind, name |-> name, pv |-> pv, widget |-> widget, read_pv |-> read_pv,
     read_widget |-> read_widget, children |-> children, layout |-> lay]

NoComp == Comp("None", "", "", NoWidget, "", NoWidget, <<>>, NoLayout)
SignalX(name) == Comp("SignalX", name, name, NoWidget, "", NoWidget, <<>>, NoLayout)
SignalR(name, widget) == Comp("SignalR", name, name, widget, "", NoWidget, <<>>, NoLayout)
SignalW(name, widget) == Comp("SignalW", name, name, widget, "", NoWidget, <<>>, NoLayout)
SignalRW(name, widget, read_pv, read_widget) ==
    Comp("SignalRW", name, name, widget, read_pv, read_widget, <<>>, NoLayout)
SignalRef(name) == Comp("SignalRef", name, "", NoWidget, "", NoWidget, <<>>, NoLayout)
Group(name, lay, children) == Comp("Group", name, "", NoWidget, "", NoWidget, children, lay)

Names == {"a", "b"}
PREFIX == "P"

\* A factory: LabelFactory, PVWidgetFactory, ActionFactory or GroupFactory
Factory(type, cls, bounds, text, pv, children) ==
    [type |-> type, cls |-> cls, bounds |-> bounds, text |-> text, pv |-> pv,
     children |-> children]

label_cls(bounds, text) == Factory("label", "label", bounds, text, <<>>, <<>>)
action_button_cls(bounds, text, pv, value) ==
    Factory("action", "action_button", bounds, text, <<pv, value>>, <<>>)

\* ScreenWidgets.pv_widget: text widgets grow by their line count
pv_widget(widget, bounds, pv, prefix) ==
    LET b == IF widget.cls \in {"TextRead", "TextWrite"}
             THEN [bounds EXCEPT !.h = bounds.h * widget.lines]
             ELSE bounds
    IN Factory("pv", widget.cls, b, "", <<prefix, pv>>, <<>>)

Max(S) == CHOOSE m \in S : \A n \in S : n <= m

max_x(widgets, spacing) ==
    IF widgets # <<>>
    THEN Max({widgets[i].bounds.x + widgets[i].bounds.w + spacing :
                  i \in 1..Len(widgets)})
    ELSE 0

max_y(widgets, spacing) ==
    IF widgets # <<>>
    THEN Max({widgets[i].bounds.y + widgets[i].bounds.h + spacing :
                  i \in 1..Len(widgets)})
    ELSE 0

next_x_pos(widget, spacing) == widget.bounds.x + widget.bounds.w + spacing
next_y_pos(widget, spacing) == widget.bounds.y + widget.bounds.h + spacing

----------------------------------------------------------------------------
(* Screen: component, make_component_widgets, group *)

full_w(L) == L.label_width + L.widget_width + 2 * L.spacing

\* component()'s inner helper
indent_widget(bounds, indentation) ==
    Bounds(bounds.x + indentation, bounds.y, bounds.w, bounds.h)

\* a bool handed on where an int is expected (True is 1, False is 0)
BoolInt(b) == IF b THEN 1 ELSE 0

HasWidget(w) == w.cls # "None"

Raised(e, reg) == [err |-> e, widgets |-> <<>>, reg |-> reg]
Yielded(ws, reg) == [err |-> "none", widgets |-> ws, reg |-> reg]

\* self.components[c.name] = c, for everything that is not a SignalRef
register(reg, c) == IF c.kind # "SignalRef" THEN [reg EXCEPT ![c.name] = c] ELSE reg

\* Screen.component, run to the end as list(...) does: the widgets it yields, or
\* the exception that ends it; reg is self.components as the call leaves it.
RECURSIVE component(_, _, _, _, _, _)
component(L, reg, c, bounds, group_widget_indent, add_label) ==
    LET reg1 == register(reg, c)
        lsplit == split(bounds, L.label_width, L.spacing)
        labels == IF add_label
                  THEN <<label_cls(indent_widget(lsplit.left, group_widget_indent),
                                   c.name)>>
                  ELSE <<>>
        b == IF add_label THEN lsplit.right ELSE bounds
        rw == split(b, IntHalf(b.w - L.spacing), L.spacing)
        ref == component(L, reg1, reg1[c.name],
                         indent_widget(b, group_widget_indent),
                         BoolInt(add_label), TRUE)
    IN  IF add_label /\ lsplit.err # "none" THEN Raised(lsplit.err, reg1)
        ELSE IF c.kind = "SignalX"
        THEN Yielded(labels \o <<action_button_cls(
                         indent_widget(b, group_widget_indent), c.name, c.pv, "1")>>,
                     reg1)
        ELSE IF c.kind = "SignalR" /\ HasWidget(c.widget)
        THEN Yielded(labels \o <<pv_widget(c.widget,
                         indent_widget(b, group_widget_indent), c.pv, PREFIX)>>, reg1)
        ELSE IF c.kind = "SignalRW" /\ c.read_pv # "" /\ HasWidget(c.read_widget)
                /\ HasWidget(c.widget)
        THEN IF rw.err # "none" THEN Raised(rw.err, reg1)
             ELSE Yielded(labels \o
                     <<pv_widget(c.widget, indent_widget(rw.left, group_widget_indent),
                                 c.pv, PREFIX),
                       pv_widget(c.read_widget,
                                 indent_widget(rw.right, group_widget_indent),
                                 c.read_pv, PREFIX)>>, reg1)
        ELSE IF c.kind \in {"SignalW", "SignalRW"} /\ HasWidget(c.widget)
        THEN Yielded(labels \o <<pv_widget(c.widget,
                         indent_widget(b, group_widget_indent), c.pv, PREFIX)>>, reg1)
        ELSE IF c.kind = "SignalRef"
        THEN IF reg1[c.name] = NoComp THEN Raised("KeyError", reg1)
             ELSE IF ref.err # "none" THEN Raised(ref.err, ref.reg)
             ELSE Yielded(labels \o ref.widgets, ref.reg)
        ELSE Yielded(labels, reg1)

\* what make_component_widgets hands back: the widgets, self.components, the
\* caller's bounds object as the call leaves it (cursor); and, as a record of the
\* call, the first layout, whether the retry branch ran and the arguments
Made(e, widgets, reg, cursor, first, retried, args) ==
    [err |-> e, widgets |-> widgets, reg |-> reg, cursor |-> cursor, first |-> first,
     retried |-> retried, args |-> args]

Args(c, bounds, parent_bounds, add_label, group_widget_indent) ==
    [c |-> c, bounds |-> bounds, parent_bounds |-> parent_bounds,
     add_label |-> add_label, group_widget_indent |-> group_widget_indent]

\* make_component_widgets after the retry: r2 is the second list(self.component(..))
mcw_retried(L, b2, r1, r2, args) ==
    IF r2.err # "none"
    THEN Made(r2.err, <<>>, r2.reg, b2, r1.widgets, TRUE, args)
    ELSE IF r2.widgets = <<>>
    THEN Made("IndexError", <<>>, r2.reg, b2, r1.widgets, TRUE, args)
    ELSE Made("none", r2.widgets, r2.reg,
              [b2 EXCEPT !.y = next_y_pos(r2.widgets[1], L.spacing)], r1.widgets, TRUE,
              args)

\* Faulty variant of mcw_first: the first lay out is returned whatever its height
mcw_first_once(L, c, bounds, parent_bounds, add_label, group_widget_indent, r1) ==
    LET b1 == [bounds EXCEPT !.y = max_y(r1.widgets, L.spacing)]
        args == Args(c, bounds, parent_bounds, add_label, group_widget_indent)
    IN  IF r1.err # "none"
        THEN Made(r1.err, <<>>, r1.reg, bounds, <<>>, FALSE, args)
        ELSE Made("none", r1.widgets, r1.reg, b1, r1.widgets, FALSE, args)

\* make_component_widgets after the first list(self.component(...)), r1
mcw_first(L, c, bounds, parent_bounds, add_label, group_widget_indent, r1) ==
    LET max_h == max_y(r1.widgets, 0)
        b1 == [bounds EXCEPT !.y = max_y(r1.widgets, L.spacing)]
        b2 == [bounds EXCEPT !.x = max_x(r1.widgets, L.spacing), !.y = 0]
        args == Args(c, bounds, parent_bounds, add_label, group_widget_indent)
    IN  IF r1.err # "none"
        THEN Made(r1.err, <<>>, r1.reg, bounds, <<>>, FALSE, args)
        ELSE IF max_h > parent_bounds.h
        THEN mcw_retried(L, b2, r1,
                 component(L, r1.reg, c, b2, group_widget_indent, add_label), args)
        ELSE Made("none", r1.widgets, r1.reg, b1, r1.widgets, FALSE, args)

\* Screen.make_component_widgets: bounds is the caller's cursor, written in place
make_component_widgets(L, reg, c, bounds, parent_bounds, add_label, group_widget_indent) ==
    mcw_first(L, c, bounds, parent_bounds, add_label, group_widget_indent,
              component(L, reg, c, bounds, group_widget_indent, add_label))

\* Faulty variant of group_post_init: the bounds are left as group() set them
group_post_init_none(fn, f) == f

\* GroupFactory.from_template(...).__post_init__: w and h come from sized
group_post_init(fn, f) ==
    LET padding == sized(fn, f.bounds)
    IN [f EXCEPT !.bounds = [f.bounds EXCEPT !.w = padding.w, !.h = padding.h]]

\* Faulty variant of group_child_made: the call is given a copy of child_bounds,
\* so that each child is laid out where the first was
group_child_made_copy(acc, r) ==
    IF r.err # "none"
    THEN [acc EXCEPT !.err = r.err, !.reg = r.reg, !.calls = Append(@, r)]
    ELSE [err |-> "none", widgets |-> acc.widgets \o r.widgets, reg |-> r.reg,
          cursor |-> acc.cursor, calls |-> Append(acc.calls, r)]

\* for w in component_widgets: widgets.append(w), and what the call did to
\* self.components and child_bounds; acc is the state of the loop (calls: the
\* record of the make_component_widgets calls made so far)
group_child_made(acc, r) ==
    IF r.err # "none"
    THEN [acc EXCEPT !.err = r.err, !.reg = r.reg, !.calls = Append(@, r)]
    ELSE [err |-> "none", widgets |-> acc.widgets \o r.widgets, reg |-> r.reg,
          cursor |-> r.cursor, calls |-> Append(acc.calls, r)]

\* Faulty variant of group_child: a child that is a Group is passed over
group_child_skip(L, g, i, parent_bounds, acc) ==
    IF g.children[i].kind = "Group"
    THEN acc
    ELSE group_child_made(acc,
             make_component_widgets(L, acc.reg, g.children[i], acc.cursor,
                                    parent_bounds, g.layout.labelled, 0))

\* the body of "for c in group.children" for child i
group_child(L, g, i, parent_bounds, acc) ==
    IF g.children[i].kind = "Group"
    THEN [acc EXCEPT !.err = "NotImplementedError"]
    ELSE group_child_made(acc,
             make_component_widgets(L, acc.reg, g.children[i], acc.cursor,
                                    parent_bounds, g.layout.labelled, 0))

\* the loop of Screen.group over group.children, from child i on
RECURSIVE group_children(_, _, _, _, _)
group_children(L, g, i, parent_bounds, acc) ==
    IF i > Len(g.children) \/ acc.err # "none"
    THEN acc
    ELSE group_children(L, g, i + 1, parent_bounds,
                        group_child(L, g, i, parent_bounds, acc))

NoFactory == Factory("none", "none", NoBounds, "", <<>>, <<>>)

\* Screen.group after the loop: bounds shrink to the widgets, group_cls is made
group_return(F, g, bounds, r) ==
    IF r.err # "none"
    THEN [err |-> r.err, factory |-> NoFactory, reg |-> r.reg, calls |-> r.calls]
    ELSE [err |-> "none",
          factory |-> group_post_init(F.group_sized,
                          Factory("group", "group",
                                  [bounds EXCEPT !.h = max_y(r.widgets, 0),
                                                 !.w = max_x(r.widgets, 0)],
                                  g.name, <<>>, r.widgets)),
          reg |-> r.reg, calls |-> r.calls]

\* Screen.group: the GroupFactory for group at bounds, or the exception
group(L, F, reg, g, bounds) ==
    IF g.layout.type # "Grid"
    THEN [err |-> "AssertionError", factory |-> NoFactory, reg |-> reg,
          calls |-> <<>>]
    ELSE group_return(F, g, bounds,
             group_children(L, g, 1, bounds,
                            [err |-> "none", widgets |-> <<>>, reg |-> reg,
                             cursor |-> Bounds(0, 0, full_w(L), L.widget_height),
                             calls |-> <<>>]))

----------------------------------------------------------------------------
(* Screen.screen *)

\* columns[k] = v on the insertion ordered dict
dict_set(d, k, v) ==
    IF \E i \in 1..Len(d) : d[i].x = k
    THEN [i \in 1..Len(d) |-> IF d[i].x = k THEN [x |-> k, y |-> v] ELSE d[i]]
    ELSE Append(d, [x |-> k, y |-> v])

RECURSIVE try_columns(_, _, _, _, _, _)

\* Faulty variant of fits_or_next: the loop breaks in the first column, whatever
\* the height of the group
fits_or_next_first(L, F, g, cols, i, r) == r

\* Faulty variant of fits_or_next: the loop never breaks, the last column wins
fits_or_next_last(L, F, g, cols, i, r) ==
    IF r.err # "none" THEN r
    ELSE IF i = Len(cols) THEN r
    ELSE try_columns(L, F, r.reg, g, cols, i + 1)

\* the test of the loop over the columns, r being self.group(...) in column i:
\* break when the group fits, else go on to the next column; after the last
\* column the loop ends with the group as last laid out
fits_or_next(L, F, g, cols, i, r) ==
    IF r.err # "none" THEN r
    ELSE IF r.factory.bounds.h + r.factory.bounds.y <= L.max_height THEN r
    ELSE IF i = Len(cols) THEN r
    ELSE try_columns(L, F, r.reg, g, cols, i + 1)

\* for col_x, col_y in columns.items(), from column i on
try_columns(L, F, reg, g, cols, i) ==
    fits_or_next(L, F, g, cols, i,
                 group(L, F, reg, g, Bounds(cols[i].x, cols[i].y, 0, L.max_height)))

\* the locals of screen() and self.components, as one record
Locals(reg, wb, sw, cols) ==
    [components |-> reg, widget_bounds |-> wb, screen_widgets |-> sw, columns |-> cols]

\* what one iteration leaves: the exception, the locals, and the record of the
\* make_component_widgets calls it made (a group: those of its last lay out)
Iterated(e, S, calls) == [err |-> e, S |-> S, calls |-> calls]

\* Faulty variant of screen_group: no empty column is registered after the group
screen_group_full(L, S, r) ==
    LET placed == [r.factory EXCEPT
                       !.bounds = [r.factory.bounds EXCEPT
                                       !.w = @ + L.group_width_offset]]
        sw == Append(S.screen_widgets, placed)
        cols1 == dict_set(S.columns, placed.bounds.x, next_y_pos(placed, L.spacing))
    IN  IF r.err # "none"
        THEN Iterated(r.err, [S EXCEPT !.components = r.reg], r.calls)
        ELSE Iterated("none", Locals(r.reg, S.widget_bounds, sw, cols1), r.calls)

\* the Group branch of the loop of screen() once the column loop has ended with r
screen_group(L, S, r) ==
    LET placed == [r.factory EXCEPT
                       !.bounds = [r.factory.bounds EXCEPT
                                       !.w = @ + L.group_width_offset]]
        sw == Append(S.screen_widgets, placed)
        cols1 == dict_set(S.columns, placed.bounds.x, next_y_pos(placed, L.spacing))
        cols2 == dict_set(cols1, max_x(sw, L.spacing), 0)
    IN  IF r.err # "none"
        THEN Iterated(r.err, [S EXCEPT !.components = r.reg], r.calls)
        ELSE Iterated("none", Locals(r.reg, S.widget_bounds, sw, cols2), r.calls)

\* the else branch of the loop of screen(): m is what make_component_widgets made
screen_leaf(S, m) ==
    IF m.err # "none"
    THEN Iterated(m.err, [S EXCEPT !.components = m.reg], <<m>>)
    ELSE Iterated("none",
                  Locals(m.reg, m.cursor, S.screen_widgets \o m.widgets, S.columns),
                  <<m>>)

\* One iteration of the loop of screen() for top level component c.
screen_iter(L, F, S, c) ==
    IF c.kind = "Group"
    THEN screen_group(L, S, try_columns(L, F, S.components, c, S.columns, 1))
    ELSE screen_leaf(S,
             make_component_widgets(L, S.components, c, S.widget_bounds,
                                    Bounds(0, 0, 0, L.max_height), TRUE,
                                    L.group_widget_indent))

\* the locals as screen() sets them up before the loop; self.components is kept
screen_entry(L, reg) ==
    Locals(reg, Bounds(0, 0, full_w(L), L.widget_height), <<>>, <<[x |-> 0, y |-> 0]>>)

\* Faulty variant of screen_call: the locals of the previous call are still there
screen_call_kept(L, S) == S

\* screen() called on a Screen that was used before, S being what the previous
\* call left: the locals are made anew, self.components is the Screen's field
screen_call(L, S) == screen_entry(L, S.components)

\* after the loop: the screen's bounds and the screen factory
screen_return(L, F, sw, title) ==
    group_post_init(F.screen_sized,
        Factory("group", "screen", Bounds(0, 0, max_x(sw, 0), max_y(sw, 0)), title,
                <<>>, sw))

----------------------------------------------------------------------------
(* format() of the factories from_template makes *)

\* What template.set(t, bounds, **properties) returns on a template that holds the
\* fragment and its properties: a copy of fragment tag at bounds with the
\* properties set. of is the place in the factory tree of the factory formatted.
Frag(tag, of, bounds, props, sub) ==
    [tag |-> tag, of |-> of, bounds |-> bounds, props |-> props, sub |-> sub]

\* FormattableWidgetFactory.format, with the default sized (Bounds.copy)
widget_format(f, path) ==
    <<Frag(f.cls, path, sized(SizedCopy, f.bounds), <<f.text, f.pv>>, <<>>)>>

\* the injected make_widgets(bounds, title): n decoration factories
make_widgets(n, bounds, title) ==
    [k \in 1..n |-> Factory("decor", "decor", bounds, title, <<k>>, <<>>)]

\* texts += widget.format() for every widget of ws, in order
RECURSIVE format_all(_, _)
format_all(ws, path) ==
    IF ws = <<>> THEN <<>>
    ELSE widget_format(Head(ws), path) \o format_all(Tail(ws), path)

IsScreen(f) == f.type = "group" /\ f.cls = "screen"
IsGroup(f) == f.type = "group" /\ f.cls = "group"

RECURSIVE format(_, _, _)

\* Faulty variant of child_formatted: the child's fragments go in front
child_formatted_first(acc, r) ==
    [err |-> r.err, texts |-> r.texts \o acc.texts, children |-> Append(acc.children, r.f)]

\* texts += c.format() for child c, formatted to r after its bounds were moved
child_formatted(acc, r) ==
    [err |-> r.err, texts |-> acc.texts \o r.texts, children |-> Append(acc.children, r.f)]

\* the body of "for c in self.children" for child i: a BobTemplate group leaves
\* the child alone, everything else moves it by the padding and formats it
format_child(F, f, path, padding, i, acc) ==
    IF F.template = "bob" /\ ~IsScreen(f)
    THEN [acc EXCEPT !.children = Append(@, f.children[i])]
    ELSE child_formatted(acc,
             format(F, [f.children[i] EXCEPT
                            !.bounds = [f.children[i].bounds EXCEPT
                                            !.x = @ + padding.x, !.y = @ + padding.y]],
                    Append(path, i)))

\* for c in self.children, from child i on: acc.texts grows, acc.children holds the
\* children with their bounds as the loop leaves them
RECURSIVE format_children(_, _, _, _, _, _)
format_children(F, f, path, padding, i, acc) ==
    IF i > Len(f.children) \/ acc.err # "none" THEN acc
    ELSE format_children(F, f, path, padding, i + 1,
                         format_child(F, f, path, padding, i, acc))

\* the end of FormattableGroupFactory.format: the Bob group element, the return
format_return(F, f, path, make, loop) ==
    LET f1 == [f EXCEPT !.children = loop.children]
        decor == make_widgets(make, f.bounds, f.text)
        group_element == widget_format(decor[Len(decor)], path)[1]
        sub_elements == [j \in 1..Len(f1.children) |->
                            widget_format(f1.children[j], Append(path, j))[1]]
    IN  IF loop.err # "none" THEN [err |-> loop.err, texts |-> <<>>, f |-> f1]
        ELSE IF F.template = "bob" /\ IsGroup(f) /\ make >= 0
        THEN IF decor = <<>>
             THEN [err |-> "UnboundLocalError", texts |-> <<>>, f |-> f1]
             ELSE [err |-> "none",
                   texts |-> loop.texts \o
                       <<[group_element EXCEPT !.sub = @ \o sub_elements]>>,
                   f |-> f1]
        ELSE [err |-> "none", texts |-> loop.texts, f |-> f1]

\* the screen branch of FormattableGroupFactory.format: the screen fragment, then
\* the widgets make_widgets makes
format_head(f, path, make) ==
    IF IsScreen(f)
    THEN <<Frag("screen", path, f.bounds, <<f.text>>, <<>>)>>
         \o (IF make >= 0
             THEN format_all(make_widgets(make, f.bounds, f.text), path)
             ELSE <<>>)
    ELSE <<>>

\* FormattableGroupFactory.format (a screen or a group), FormattableWidgetFactory
\* .format (anything else): the list returned and the factory as format leaves it
format(F, f, path) ==
    IF f.type # "group"
    THEN [err |-> "none", texts |-> widget_format(f, path), f |-> f]
    ELSE format_return(F, f, path,
             IF IsScreen(f) THEN F.screen_make ELSE F.group_make,
             format_children(F, f, path,
                 sized(IF IsScreen(f) THEN F.screen_sized ELSE F.group_sized, f.bounds),
                 1,
                 [err |-> "none",
                  texts |-> format_head(f, path,
                                IF IsScreen(f) THEN F.screen_make ELSE F.group_make),
                  children |-> <<>>]))

----------------------------------------------------------------------------
(* Template catalogs: EdlTemplate, AdlTemplate, BobTemplate *)

\* Property values: a str or an int. str(value) of an int is its digit.
StrVal(s) == [t |-> "str", n |-> 0, s |-> s]
IntVal(n) == [t |-> "int", n |-> n, s |-> ""]
Digits == <<"0", "1", "2", "3", "4", "5", "6", "7", "8", "9">>
str_(value) == IF value.t = "int" THEN Digits[value.n + 1] ELSE value.s

\* A piece of template text that stands for a value, in quotes or not
Tok(q, s) == [q |-> q, s |-> s]

\* template.set writes f'"{value}"' for a str and str(value) for anything else
Quoted(value) == Tok(value.t = "str", str_(value))

\* One line of an EDL or ADL template. form "single" is "item value" (EDL) or
\* "item=value" (ADL), form "multi" is the EDL block "item { ... }" with one
\* value a line, form "other" is any other line, known by its first word.
Line(item, form, value) == [item |-> item, form |-> form, value |-> value]
Single(item, tok) == Line(item, "single", <<tok>>)
Multi(item, toks) == Line(item, "multi", toks)
Other(item) == Line(item, "other", <<>>)

\* A node of the element tree of a BOB template
Elem(tag, text, children) == [tag |-> tag, text |-> text, children |-> children]
NoElem == Elem("", "", <<>>)

\* where there is no fragment: an empty text, or no element
NoFrag(kind) == IF kind = "bob" THEN NoElem ELSE <<>>

RECURSIVE concat(_)
concat(items) ==
    IF items = <<>> THEN <<>> ELSE Head(items) \o concat(Tail(items))

\* text.split(sep, maxsplit) line by line, cur being the piece read so far
RECURSIVE text_split(_, _, _, _)
text_split(text, sep, maxsplit, cur) ==
    IF text = <<>> THEN <<cur>>
    ELSE IF Head(text) = sep /\ maxsplit # 0
    THEN <<cur>> \o text_split(Tail(text), sep, maxsplit - 1, <<>>)
    ELSE text_split(Tail(text), sep, maxsplit, Append(cur, Head(text)))

\* every piece gets the separator back, the piece after the last separator too
split_with_sep(text, sep, maxsplit) ==
    [i \in 1..Len(text_split(text, sep, maxsplit, <<>>)) |->
        Append(text_split(text, sep, maxsplit, <<>>)[i], sep)]

\* "word" in text
Contains(text, word) == \E i \in 1..Len(text) : text[i].item = word

Catalog(kind, e, screen, widgets, tree) ==
    [kind |-> kind, err |-> e, screen |-> screen, widgets |-> widgets, tree |-> tree]

\* EdlTemplate.__init__ after the assert, parts being the split at the screen
edl_init(parts) ==
    IF Len(parts) # 2
    THEN Catalog("edl", "ValueError", <<>>, <<>>, NoElem)
    ELSE Catalog("edl", "none", parts[1],
                 split_with_sep(parts[2], Other("endObjectProperties"), -1), NoElem)

EdlTemplate(text) ==
    IF Contains(text, "endGroup")
    THEN Catalog("edl", "AssertionError", <<>>, <<>>, NoElem)
    ELSE edl_init(split_with_sep(text, Other("endScreenProperties"), 1))

\* AdlTemplate.__init__ after the assert, widgets being the split at "}"
adl_init(widgets) ==
    Catalog("adl", "none",
            concat(SubSeq(widgets, 1, IF Len(widgets) < 3 THEN Len(widgets) ELSE 3)),
            SubSeq(widgets, 4, Len(widgets)), NoElem)

AdlTemplate(text) ==
    IF Contains(text, "children")
    THEN Catalog("adl", "AssertionError", <<>>, <<>>, NoElem)
    ELSE adl_init(split_with_sep(text, Other("}"), -1))

\* re.search(search, t) for a search that is one word: the word is in the text
re_search(search, t) ==
    \E i \in 1..Len(t) :
        \/ t[i].item = search
        \/ \E j \in 1..Len(t[i].value) : t[i].value[j].s = search

\* what search() returns or raises
Found(kind, e, count, key, have, out) ==
    [kind |-> kind, err |-> e, msg |-> [count |-> count, key |-> key],
     have |-> have, out |-> out]

\* Faulty variant of search_result: the first match will do
search_first(kind, matches, search) ==
    IF matches # <<>>
    THEN Found(kind, "none", 0, "", TRUE, matches[1])
    ELSE Found(kind, "IndexError", 0, "", FALSE, NoFrag(kind))

\* assert len(matches) == 1, f"Got {len(matches)} matches for {search!r}", and
\* matches[0]
search_result(kind, matches, search) ==
    IF Len(matches) = 1
    THEN Found(kind, "none", 0, "", TRUE, matches[1])
    ELSE Found(kind, "AssertionError", Len(matches), search, FALSE, NoFrag(kind))

\* [t for t in self.widgets if re.search(search, t)]
RECURSIVE text_matches(_, _)
text_matches(widgets, search) ==
    IF widgets = <<>> THEN <<>>
    ELSE (IF re_search(search, Head(widgets)) THEN <<Head(widgets)>> ELSE <<>>)
         \o text_matches(Tail(widgets), search)

\* EdlTemplate.search
edl_search(T, search) == search_result("edl", text_matches(T.widgets, search), search)

\* AdlTemplate.search
adl_search(T, search) == search_result("adl", text_matches(T.widgets, search), search)

\* the parent of every name element with text search, under and including e, in
\* document order
RECURSIVE name_parents(_, _)
name_parents(e, search) ==
    concat([i \in 1..Len(e.children) |->
               IF e.children[i].tag = "name" /\ e.children[i].text = search
               THEN <<e>> ELSE <<>>])
    \o concat([i \in 1..Len(e.children) |-> name_parents(e.children[i], search)])

\* for child in matches[0]: if child.tag == "widget": matches[0].remove(child)
without_widgets(e) ==
    [e EXCEPT !.children = SelectSeq(e.children, LAMBDA c : c.tag # "widget")]

\* the end of BobTemplate.search: a display is returned without its widgets
isolated(r) ==
    IF r.have /\ r.out.tag = "display"
    THEN [r EXCEPT !.out = without_widgets(r.out)]
    ELSE r

\* BobTemplate.search, on a deep copy of self.tree
bob_search(T, search) ==
    isolated(search_result("bob", name_parents(T.tree, search), search))

\* BobTemplate.__init__ after the parse, r being self.search("Display")
bob_init(tree, r) == Catalog("bob", r.err, r.out, <<>>, tree)

BobTemplate(tree) ==
    bob_init(tree, bob_search(Catalog("bob", "none", NoElem, <<>>, tree), "Display"))

\* the catalog a template document makes
Template(kind, text) ==
    CASE kind = "edl" -> EdlTemplate(text)
      [] kind = "adl" -> AdlTemplate(text)
      [] kind = "bob" -> BobTemplate(text)

\* WidgetTemplate.search
search(T, key) ==
    CASE T.kind = "edl" -> edl_search(T, key)
      [] T.kind = "adl" -> adl_search(T, key)
      [] T.kind = "bob" -> bob_search(T, key)

\* **properties: a dict, kept in insertion order
Prop(item, value) == [item |-> item, value |-> value]

\* properties[k] = v
props_set(d, k, v) ==
    IF \E i \in 1..Len(d) : d[i].item = k
    THEN [i \in 1..Len(d) |-> IF d[i].item = k THEN Prop(k, v) ELSE d[i]]
    ELSE Append(d, Prop(k, v))

\* the names the bounds go by in the templates of this kind
BoundsItems(kind) ==
    IF kind = "edl" THEN <<"x", "y", "w", "h">> ELSE <<"x", "y", "width", "height">>

\* if bounds: properties[...] = ...; bounds is <<>> for None, <<b>> for a Bounds
with_bounds(kind, bounds, properties) ==
    IF bounds = <<>> THEN properties
    ELSE props_set(props_set(props_set(props_set(properties,
             BoundsItems(kind)[1], IntVal(bounds[1].x)),
             BoundsItems(kind)[2], IntVal(bounds[1].y)),
             BoundsItems(kind)[3], IntVal(bounds[1].w)),
             BoundsItems(kind)[4], IntVal(bounds[1].h))

\* the lines of t the pattern for item matches: the "item { ... }" blocks when
\* there is one, the "item value" lines otherwise
edl_pattern(t, item) ==
    IF \E i \in 1..Len(t) : t[i].item = item /\ t[i].form = "multi"
    THEN {i \in 1..Len(t) : t[i].item = item /\ t[i].form = "multi"}
    ELSE {i \in 1..Len(t) : t[i].item = item /\ t[i].form = "single"}

\* what the line i of t is replaced by
edl_repl(t, i, item, value) ==
    IF t[i].form = "multi"
    THEN Multi(item, <<Tok(TRUE, str_(value))>>)
    ELSE Single(item, Quoted(value))

\* t, n = pattern.subn(...); assert n == 1: acc is t so far and the failure
subn(acc, hits, repl) ==
    [err |-> IF Cardinality(hits) = 1 THEN "none" ELSE "AssertionError",
     t |-> [i \in 1..Len(acc.t) |-> IF i \in hits THEN repl[i] ELSE acc.t[i]]]

\* EdlTemplate.set: the body of "for item, value in properties.items()"
edl_set_item(acc, item, value) ==
    IF acc.err # "none" THEN acc
    ELSE subn(acc, edl_pattern(acc.t, item),
              [i \in 1..Len(acc.t) |-> edl_repl(acc.t, i, item, value)])

\* AdlTemplate.set: the body of "for item, value in properties.items()"
adl_set_item(acc, item, value) ==
    IF acc.err # "none" THEN acc
    ELSE subn(acc, {i \in 1..Len(acc.t) : acc.t[i].item = item /\ acc.t[i].form = "single"},
              [i \in 1..Len(acc.t) |-> Single(item, Quoted(value))])

\* t_copy.xpath(f"./{item}")[0]: the first child of that tag, 0 when there is none
xpath_first(t, item) ==
    IF \E i \in 1..Len(t.children) : t.children[i].tag = item
    THEN CHOOSE i \in 1..Len(t.children) :
             /\ t.children[i].tag = item
             /\ \A j \in 1..(i - 1) : t.children[j].tag # item
    ELSE 0

\* BobTemplate.set: the body of "for item, value in properties.items()"
bob_set_item(acc, item, value) ==
    IF acc.err # "none" THEN acc
    ELSE IF xpath_first(acc.t, item) # 0
    THEN [acc EXCEPT !.t.children[xpath_first(acc.t, item)].text = str_(value)]
    ELSE IF xpath_first(acc.t, "name") # 0
    THEN [acc EXCEPT !.err = "ValueError"]
    ELSE [acc EXCEPT !.err = "AttributeError"]

set_item(kind, acc, item, value) ==
    CASE kind = "edl" -> edl_set_item(acc, item, value)
      [] kind = "adl" -> adl_set_item(acc, item, value)
      [] kind = "bob" -> bob_set_item(acc, item, value)

\* for item, value in properties.items(), from property i on
RECURSIVE set_items(_, _, _, _)
set_items(kind, properties, i, acc) ==
    IF i > Len(properties) THEN acc
    ELSE set_items(kind, properties, i + 1,
                   set_item(kind, acc, properties[i].item, properties[i].value))

\* Faulty variant of set_result: the items were set in t itself
set_result_in_place(kind, t, r) ==
    [err |-> r.err, have |-> r.err = "none",
     out |-> IF r.err = "none" THEN r.t ELSE NoFrag(kind), t |-> r.t]

\* What set leaves behind, r being the copy of t as the loop left it: the copy is
\* returned when nothing failed; t, the argument, is what it was.
set_result(kind, t, r) ==
    [err |-> r.err, have |-> r.err = "none",
     out |-> IF r.err = "none" THEN r.t ELSE NoFrag(kind), t |-> t]

\* WidgetTemplate.set: EdlTemplate.set and AdlTemplate.set rebind the local t to
\* new strings, BobTemplate.set works on deepcopy(t)
set(T, t, bounds, properties) ==
    set_result(T.kind, t,
               set_items(T.kind, with_bounds(T.kind, bounds, properties), 1,
                         [err |-> "none", t |-> t]))

----------------------------------------------------------------------------
(* Inputs: layout properties, formatter set-ups, component trees *)

MaxComps == 3

LayoutProperties(spacing, title_height, max_height, group_label_height, label_width, widget_width, widget_height, group_widget_indent, group_width_offset) ==
    [spacing |-> spacing, title_height |-> title_height, max_height |-> max_height,
     group_label_height |-> group_label_height, label_width |-> label_width,
     widget_width |-> widget_width, widget_height |-> widget_height,
     group_widget_indent |-> group_widget_indent,
     group_width_offset |-> group_width_offset]

Formatter(template, screen_sized, group_sized, screen_make, group_make) ==
    [template |-> template, screen_sized |-> screen_sized, group_sized |-> group_sized,
     screen_make |-> screen_make, group_make |-> group_make]

\* a make_widgets of None (a count otherwise)
NoMake == -1

Configs ==
    { [L |-> LayoutProperties(1, 1, 5, 1, 2, 4, 2, 0, 0),
       F |-> Formatter("adl", SizedCopy, SizedCopy, NoMake, NoMake)],
      [L |-> LayoutProperties(1, 2, 9, 1, 2, 4, 2, 2, 1),
       F |-> Formatter("bob", SizedTitle(1, 2), SizedTitle(1, 1), 2, 1)],
      [L |-> LayoutProperties(2, 1, 4, 1, 3, 2, 1, 1, 0),
       F |-> Formatter("edl", SizedTitle(2, 1), SizedCopy, 1, NoMake)],
      [L |-> LayoutProperties(0, 1, 4, 1, 2, 3, 1, 0, 0),
       F |-> Formatter("adl", SizedCopy, SizedTitle(0, 1), NoMake, NoMake)] }

Leaves ==
    { SignalX("a"),
      SignalR("a", TextRead(2)),
      SignalR("b", NoWidget),
      SignalRW("b", TextWrite(1), "b_RBV", TextRead(1)),
      SignalW("a", CheckBox),
      SignalRef("a"),
      SignalRef("b") }

Groups ==
    { Group("g", Grid(TRUE), <<>>),
      Group("g", Grid(TRUE), <<SignalX("a")>>),
      Group("g", Grid(TRUE),
            <<SignalRW("b", TextWrite(1), "b_RBV", TextRead(1)),
              SignalR("a", TextRead(2))>>),
      Group("g", Grid(FALSE), <<SignalR("b", NoWidget), SignalW("a", CheckBox)>>),
      Group("g", Grid(TRUE), <<SignalW("a", CheckBox), SignalRef("a")>>),
      Group("g", Grid(TRUE), <<SignalX("a"), SignalX("a"), SignalX("b")>>),
      Group("g", Plot, <<SignalX("a")>>),
      Group("g", Grid(TRUE), <<Group("h", Grid(TRUE), <<>>)>>),
      Group("g", Grid(TRUE), <<SignalX("b"), Group("h", Grid(TRUE), <<>>)>>),
      Group("g", Grid(FALSE),
            <<SignalW("a", CheckBox), SignalR("b", NoWidget), SignalX("b")>>) }

Tree == Leaves \cup Groups

\* Template documents. Box is the four lines (elements) of a widget's bounds.
EdlBox ==
    <<Single("x", Tok(FALSE, "0")), Single("y", Tok(FALSE, "0")),
      Single("w", Tok(FALSE, "0")), Single("h", Tok(FALSE, "0"))>>

AdlBox ==
    <<Single("x", Tok(FALSE, "0")), Single("y", Tok(FALSE, "0")),
      Single("width", Tok(FALSE, "0")), Single("height", Tok(FALSE, "0"))>>

BobBox ==
    <<Elem("x", "0", <<>>), Elem("y", "0", <<>>),
      Elem("width", "0", <<>>), Elem("height", "0", <<>>)>>

EdlScreen ==
    EdlBox \o <<Single("title", Tok(TRUE, "t")), Other("endScreenProperties")>>

EdlLabel ==
    <<Single("object", Tok(FALSE, "Label"))>> \o EdlBox
    \o <<Multi("text", <<Tok(TRUE, "a"), Tok(TRUE, "b")>>), Other("endObjectProperties")>>

EdlTextUpdate ==
    <<Single("object", Tok(FALSE, "TextUpdate"))>> \o EdlBox
    \o <<Single("pv", Tok(TRUE, "p")), Other("endObjectProperties")>>

AdlScreen ==
    <<Other("file"), Single("name", Tok(TRUE, "f")), Other("}"), Other("display")>>
    \o AdlBox \o <<Other("}"), Other("colors"), Other("}")>>

AdlLabel ==
    <<Other("Label")>> \o AdlBox \o <<Single("text", Tok(TRUE, "a")), Other("}")>>

AdlTextUpdate ==
    <<Other("TextUpdate")>> \o AdlBox \o <<Single("pv", Tok(TRUE, "p")), Other("}")>>

BobWidget(name, item) ==
    Elem("widget", "", <<Elem("name", name, <<>>)>> \o BobBox \o <<Elem(item, "a", <<>>)>>)

BobDisplay(widgets) ==
    Elem("display", "", <<Elem("name", "Display", <<>>)>> \o BobBox \o widgets)

\* For every kind a document with one widget of each sort, and one where a
\* widget comes twice and the label holds one of its lines twice
Docs ==
    { [kind |-> "edl", text |-> EdlScreen \o EdlLabel \o EdlTextUpdate],
      [kind |-> "edl",
       text |-> EdlScreen \o EdlTextUpdate \o <<Single("x", Tok(FALSE, "1"))>>
                \o EdlLabel \o EdlTextUpdate],
      [kind |-> "adl", text |-> AdlScreen \o AdlLabel \o AdlTextUpdate],
      [kind |-> "adl",
       text |-> AdlScreen \o AdlTextUpdate \o <<Single("x", Tok(FALSE, "1"))>>
                \o AdlLabel \o AdlTextUpdate],
      [kind |-> "bob",
       text |-> BobDisplay(<<BobWidget("Label", "text"), BobWidget("TextUpdate", "pv")>>)],
      [kind |-> "bob",
       text |-> BobDisplay(<<BobWidget("Label", "text"),
                             Elem("widget", "",
                                  <<Elem("name", "Group", <<>>)>> \o BobBox
                                  \o <<BobWidget("TextUpdate", "pv")>>),
                             BobWidget("TextUpdate", "pv")>>)] }

Keys == {"Label", "TextUpdate", "Group", "Display", "x", "none"}

PropSets ==
    { <<>>,
      <<Prop("text", StrVal("hi"))>>,
      <<Prop("pv", StrVal("P"))>>,
      <<Prop("x", IntVal(7)), Prop("text", StrVal("hi"))>> }

BoundsArgs == { <<>>, <<Bounds(1, 2, 3, 4)>> }

TITLE == "T"

NoLast == [op |-> "none", S |-> screen_entry(LayoutProperties(0, 0, 0, 0, 0, 0, 0, 0, 0),
                                               [n \in Names |-> NoComp]),
           c |-> NoComp, calls |-> <<>>, root |-> NoFactory]
NoOut == [pc |-> "none", err |-> "none", texts |-> <<>>, inputs |-> <<>>,
          root |-> NoFactory]

----------------------------------------------------------------------------
(* The layout and format run *)

InitTemplatesIdle ==
    /\ doc = <<>>
    /\ catalog = <<>>
    /\ held = <<>>
    /\ tres = <<>>

InitSplitIdle == sp = <<>>

InitRun(n) ==
    /\ \E cfg \in Configs : layout = cfg.L /\ fmt = cfg.F
    /\ components = [n1 \in Names |-> NoComp]
    /\ widget_bounds = screen_entry(layout, components).widget_bounds
    /\ screen_widgets = <<>>
    /\ columns = screen_entry(layout, components).columns
    /\ pc = "layout"
    /\ err = "none"
    /\ inputs = <<>>
    /\ last = NoLast
    /\ root = NoFactory
    /\ texts = <<>>
    /\ run = 1
    /\ limit = n
    /\ out1 = NoOut

Init == InitRun(MaxComps) /\ InitTemplatesIdle /\ InitSplitIdle

\* the assignments one iteration of the loop makes, r being what it computed
Iterate(c, S, r) ==
    /\ components' = r.S.components
    /\ widget_bounds' = r.S.widget_bounds
    /\ screen_widgets' = r.S.screen_widgets
    /\ columns' = r.S.columns
    /\ err' = r.err
    /\ pc' = IF r.err = "none" THEN "layout" ELSE "error"
    /\ last' = [op |-> IF c.kind = "Group" THEN "group" ELSE "leaf", S |-> S, c |-> c,
                calls |-> r.calls, root |-> root]

\* screen(): one iteration of "for c in components"
ScreenIter(c) ==
    /\ pc = "layout"
    /\ Len(inputs) < limit
    /\ run = 2 => /\ Len(inputs) < Len(out1.inputs)
                  /\ c = out1.inputs[Len(inputs) + 1]
    /\ Iterate(c, Locals(components, widget_bounds, screen_widgets, columns),
               screen_iter(layout, fmt,
                           Locals(components, widget_bounds, screen_widgets, columns),
                           c))
    /\ inputs' = Append(inputs, c)
    /\ UNCHANGED <<layout, fmt, root, texts, run, limit, out1>>
    /\ UNCHANGED templateVars /\ UNCHANGED sp

\* screen(): the loop is over, the screen factory is returned
ScreenReturn ==
    /\ pc = "layout"
    /\ run = 2 => Len(inputs) = Len(out1.inputs)
    /\ root' = screen_return(layout, fmt, screen_widgets, TITLE)
    /\ pc' = "built"
    /\ last' = [last EXCEPT !.op = "return"]
    /\ UNCHANGED <<layout, fmt, components, widget_bounds, screen_widgets, columns, err,
                   inputs, texts, run, limit, out1>>
    /\ UNCHANGED templateVars /\ UNCHANGED sp

\* the assignments of format(), r being what it returned
Formatted(r) ==
    /\ root' = r.f
    /\ texts' = r.texts
    /\ err' = r.err
    /\ pc' = IF r.err = "none" THEN "formatted" ELSE "error"

\* format() of the returned screen factory
Format ==
    /\ pc = "built"
    /\ Formatted(format(fmt, root, <<>>))
    /\ last' = [last EXCEPT !.op = "format", !.root = root]
    /\ UNCHANGED <<layout, fmt, components, widget_bounds, screen_widgets, columns,
                   inputs, run, limit, out1>>
    /\ UNCHANGED templateVars /\ UNCHANGED sp

Next == (\E c \in Tree : ScreenIter(c)) \/ ScreenReturn \/ Format

Spec == Init /\ [][Next]_vars

\* the assignments of the entry of a second screen(), S being its fresh locals
Entered(S) ==
    /\ components' = S.components
    /\ widget_bounds' = S.widget_bounds
    /\ screen_widgets' = S.screen_widgets
    /\ columns' = S.columns

\* the first screen() + format() is over (returned or raised): its outcome is
\* kept, and the same Screen is asked to lay out the same components again
Restart ==
    /\ run = 1
    /\ pc \in {"formatted", "error"}
    /\ out1' = [pc |-> pc, err |-> err, texts |-> texts, inputs |-> inputs,
                root |-> root]
    /\ Entered(screen_call(layout,
                           Locals(components, widget_bounds, screen_widgets, columns)))
    /\ run' = 2
    /\ pc' = "layout"
    /\ err' = "none"
    /\ inputs' = <<>>
    /\ texts' = <<>>
    /\ root' = NoFactory
    /\ last' = [NoLast EXCEPT !.op = "restart"]
    /\ UNCHANGED <<layout, fmt, limit>>
    /\ UNCHANGED templateVars /\ UNCHANGED sp

InitTwice == InitRun(MaxComps) /\ InitTemplatesIdle /\ InitSplitIdle

NextTwice == (\E c \in Tree : ScreenIter(c)) \/ ScreenReturn \/ Format \/ Restart

SpecTwice == InitTwice /\ [][NextTwice]_vars

----------------------------------------------------------------------------
(* Bounds.split on its own *)

MaxCoord == 2
MaxSize == 4
MaxSpacing == 2

\* no Screen is at work
InitLayoutIdle ==
    /\ layout = LayoutProperties(0, 0, 0, 0, 0, 0, 0, 0, 0)
    /\ fmt = Formatter("none", SizedCopy, SizedCopy, NoMake, NoMake)
    /\ components = [n \in Names |-> NoComp]
    /\ widget_bounds = NoBounds
    /\ screen_widgets = <<>>
    /\ columns = <<>>
    /\ pc = "idle"
    /\ err = "none"
    /\ inputs = <<>>
    /\ last = NoLast
    /\ root = NoFactory
    /\ texts = <<>>
    /\ run = 1
    /\ limit = 0
    /\ out1 = NoOut

\* a Bounds and the arguments of a call of split that was not made yet
InitSplit ==
    \E x, y \in 0..MaxCoord, w, h, width \in 0..MaxSize, spacing \in 0..MaxSpacing :
        sp = [self |-> Bounds(x, y, w, h), width |-> width, spacing |-> spacing,
              called |-> FALSE, res |-> split(NoBounds, 0, 0)]

\* self.split(width, spacing) is called: what it returns or raises, and self after
Split ==
    /\ ~sp.called
    /\ sp' = [sp EXCEPT !.called = TRUE, !.res = split(sp.self, sp.width, sp.spacing)]
    /\ UNCHANGED layoutVars /\ UNCHANGED templateVars

InitBounds == InitLayoutIdle /\ InitTemplatesIdle /\ InitSplit

NextBounds == Split

SpecBounds == InitBounds /\ [][NextBounds]_vars

----------------------------------------------------------------------------
(* The template catalogs on their own *)

NoHeld(kind) == [have |-> FALSE, frag |-> NoFrag(kind)]

\* the record of a call: what was asked and what came of it
Call(op, key, bounds, properties, before, r, msg) ==
    [op |-> op, key |-> key, bounds |-> bounds, props |-> properties,
     before |-> before, err |-> r.err, have |-> r.have, out |-> r.out, msg |-> msg]

NoMsg == [count |-> 0, key |-> ""]

\* a catalog was built from a document, nothing was asked of it yet
InitTemplate ==
    /\ \E d \in Docs : doc = d /\ catalog = Template(d.kind, d.text)
    /\ catalog.err = "none"
    /\ held = [k \in Keys |-> NoHeld(catalog.kind)]
    /\ tres = Call("none", "", <<>>, <<>>, NoFrag(catalog.kind),
                   [err |-> "none", have |-> FALSE, out |-> NoFrag(catalog.kind)], NoMsg)

\* the assignments of a search, r being what it returned or raised
Searched(key, r) ==
    /\ tres' = Call("search", key, <<>>, <<>>, NoFrag(catalog.kind), r, r.msg)
    /\ held' = IF r.have THEN [held EXCEPT ![key] = [have |-> TRUE, frag |-> r.out]]
               ELSE held

\* template.search(key), the caller keeps what it returns
Search(key) ==
    /\ Searched(key, search(catalog, key))
    /\ UNCHANGED <<doc, catalog>>
    /\ UNCHANGED layoutVars /\ UNCHANGED sp

\* the record of a set, r being what it returned or raised
DidSet(key, bounds, properties, before, r) ==
    tres' = Call("set", key, bounds, properties, before, r, NoMsg)

\* template.set(t, bounds, **properties), t a fragment search(key) returned:
\* the caller still holds t, as set left it
Set(key, bounds, properties) ==
    /\ held[key].have
    /\ DidSet(key, bounds, properties, held[key].frag,
              set(catalog, held[key].frag, bounds, properties))
    /\ held' = [held EXCEPT
                   ![key].frag = set(catalog, held[key].frag, bounds, properties).t]
    /\ UNCHANGED <<doc, catalog>>
    /\ UNCHANGED layoutVars /\ UNCHANGED sp

\* template.set(template.screen, bounds, **properties)
SetScreen(bounds, properties) ==
    /\ DidSet("screen", bounds, properties, catalog.screen,
              set(catalog, catalog.screen, bounds, properties))
    /\ catalog' = [catalog EXCEPT
                      !.screen = set(catalog, catalog.screen, bounds, properties).t]
    /\ UNCHANGED <<doc, held>>
    /\ UNCHANGED layoutVars /\ UNCHANGED sp

InitTemplates == InitLayoutIdle /\ InitTemplate /\ InitSplitIdle

NextTemplate ==
    \/ \E key \in Keys : Search(key)
    \/ \E key \in Keys, bounds \in BoundsArgs, properties \in PropSets :
           Set(key, bounds, properties)
    \/ \E bounds \in BoundsArgs, properties \in PropSets : SetScreen(bounds, properties)

SpecTemplate == InitTemplates /\ [][NextTemplate]_vars

----------------------------------------------------------------------------
(* Properties of screen(), component() and make_component_widgets() *)

\* the last iteration placed a top level group
GroupPlaced == last.op = "group" /\ pc = "layout"

\* the last iteration placed a top level leaf component
LeafPlaced == last.op = "leaf" /\ pc = "layout"

\* the group the last iteration appended to screen_widgets
Placed == screen_widgets[Len(screen_widgets)]

\* the test of the column loop, for a group of the height of f in column col
FitsIn(col, f) == col.y + f.bounds.h <= layout.max_height

OnlyGroups == \A i \in 1..Len(inputs) : inputs[i].kind = "Group"

\* C1: every top level group is placed at (x, bottom y) of the first column, in
\* the order the columns were registered, in which y + h <= max_height; no
\* earlier column passes that test (when none does, the loop ends on the last).
C1_FirstFit ==
    GroupPlaced =>
        \E i \in 1..Len(last.S.columns) :
            /\ Placed.bounds.x = last.S.columns[i].x
            /\ Placed.bounds.y = last.S.columns[i].y
            /\ \A j \in 1..(i - 1) : ~FitsIn(last.S.columns[j], Placed)
            /\ FitsIn(last.S.columns[i], Placed) \/ i = Len(last.S.columns)

\* a group went into the second of three columns: it fits there, not in the first
C1_Witness ==
    /\ GroupPlaced
    /\ Len(last.S.columns) >= 3
    /\ Placed.bounds.x = last.S.columns[2].x
    /\ Placed.bounds.y = last.S.columns[2].y
    /\ last.S.columns[2].y > 0
    /\ FitsIn(last.S.columns[2], Placed)
    /\ ~FitsIn(last.S.columns[1], Placed)

\* C2 as claimed: with top level groups only, a group that fits under the groups
\* stacked in none of the occupied columns is placed at y = 0, in a column at
\* least spacing to the right of everything placed before it.
C2_OverflowColumn ==
    (/\ GroupPlaced
     /\ OnlyGroups
     /\ \E i \in 1..Len(last.S.columns) : last.S.columns[i].y > 0
     /\ \A i \in 1..Len(last.S.columns) :
            last.S.columns[i].y > 0 => ~FitsIn(last.S.columns[i], Placed))
    => /\ Placed.bounds.y = 0
       /\ Placed.bounds.x >= max_x(last.S.screen_widgets, 0) + layout.spacing

\* widget w moved from a lay out at cursor from to a lay out at cursor to
Moved(w, from, to) ==
    [w EXCEPT !.bounds = [w.bounds EXCEPT !.x = @ - from.x + to.x,
                                           !.y = @ - from.y + to.y]]

\* where make_component_widgets retries: right of the first lay out, at the top
RetryAt(call) ==
    [call.args.bounds EXCEPT !.x = max_x(call.first, 0) + layout.spacing, !.y = 0]

\* the first lay out of the call reaches below the parent's height
Overflows(call) == max_y(call.first, 0) > call.args.parent_bounds.h

IsReadWrite(c) ==
    /\ c.kind = "SignalRW"
    /\ c.read_pv # ""
    /\ HasWidget(c.read_widget)
    /\ HasWidget(c.widget)

\* C4: a labelled read/write signal with a write widget, a read widget and a
\* read PV gives three factories: the label, label_width wide at the left, then
\* the write widget on pv and the read widget on read_pv in one row, spacing
\* apart, together as wide as what the label left.
C4_ReadWriteSplit ==
    (last.op \in {"group", "leaf"}) =>
        \A k \in 1..Len(last.calls) :
            LET call == last.calls[k]
                c == call.args.c
                b == call.args.bounds
                ind == call.args.group_widget_indent
                w == call.first
            IN (call.err = "none" /\ call.args.add_label /\ IsReadWrite(c)) =>
                /\ Len(w) = 3
                /\ w[1].type = "label"
                /\ w[1].bounds = Bounds(b.x + ind, b.y, layout.label_width, b.h)
                /\ w[2].type = "pv" /\ w[2].cls = c.widget.cls
                /\ w[2].pv = <<PREFIX, c.pv>>
                /\ w[3].type = "pv" /\ w[3].cls = c.read_widget.cls
                /\ w[3].pv = <<PREFIX, c.read_pv>>
                /\ w[2].bounds.y = b.y /\ w[3].bounds.y = b.y
                /\ w[2].bounds.x = w[1].bounds.x + layout.label_width + layout.spacing
                /\ w[3].bounds.x = w[2].bounds.x + w[2].bounds.w + layout.spacing
                /\ w[2].bounds.w + layout.spacing + w[3].bounds.w
                       = b.w - layout.label_width - layout.spacing

\* a labelled read/write signal was laid out, its two widgets of non zero width
C4_Witness ==
    /\ LeafPlaced
    /\ IsReadWrite(last.c)
    /\ Len(last.calls[1].first) = 3
    /\ last.calls[1].first[2].bounds.w > 0
    /\ last.calls[1].first[3].bounds.w > 0

\* the last iteration met, at top level, a SignalRef to a name not registered
UnresolvedRef ==
    /\ last.op = "leaf"
    /\ last.c.kind = "SignalRef"
    /\ last.S.components[last.c.name] = NoComp

\* C5 as claimed: a SignalRef to a name no earlier component registered ends
\* the lay out with the unresolved reference error, not with a raw lookup
\* failure, and no widget is made for it.
C5_UnresolvedReference ==
    UnresolvedRef =>
        /\ pc = "error"
        /\ err = "UnresolvedReferenceError"
        /\ screen_widgets = last.S.screen_widgets

\* path p comes no later than path q when the factory tree is walked depth first
DepthFirstLeq(p, q) ==
    \E n \in 0..Len(p) :
        /\ n <= Len(q)
        /\ SubSeq(p, 1, n) = SubSeq(q, 1, n)
        /\ n = Len(p) \/ (n < Len(q) /\ p[n + 1] < q[n + 1])

\* how many decoration fragments the screen's make_widgets accounts for
Decorations == IF fmt.screen_make >= 0 THEN fmt.screen_make ELSE 0

\* C10: format() of the screen factory returns the screen fragment, carrying the
\* screen's bounds and title, first, then the fragments of the widgets of
\* make_widgets in the order it made them, then the fragments of the children
\* in child order, depth first: no fragment of a child comes before a fragment
\* of an earlier sibling.
C10_FormatOrder ==
    pc = "formatted" =>
        /\ Len(texts) >= 1 + Decorations
        /\ texts[1] = Frag("screen", <<>>, last.root.bounds, <<TITLE>>, <<>>)
        /\ \A k \in 1..Decorations :
               /\ texts[1 + k].tag = "decor"
               /\ texts[1 + k].of = <<>>
               /\ texts[1 + k].props = <<TITLE, <<k>>>>
        /\ \A k \in (2 + Decorations)..Len(texts) :
               /\ texts[k].of # <<>>
               /\ texts[k].of[1] \in 1..Len(last.root.children)
               /\ \A m \in (k + 1)..Len(texts) :
                      DepthFirstLeq(texts[k].of, texts[m].of)

\* a screen with a decoration, two children that gave fragments, one of them a
\* group whose children gave fragments of their own
C10_Witness ==
    /\ pc = "formatted"
    /\ Decorations >= 1
    /\ \E k, m \in 1..Len(texts) :
           /\ k < m
           /\ Len(texts[k].of) = 2
           /\ Len(texts[m].of) >= 1
           /\ texts[k].of[1] < texts[m].of[1]

\* the second run is over
SecondOver == run = 2 /\ pc \in {"formatted", "error"}

\* C6: a Screen that laid out and formatted a component tree gives, asked to do
\* the same again, the same outcome: the same fragments or the same failure.
\* What the first run left in the Screen does not show in the second.
C6_SameTwice ==
    SecondOver =>
        /\ pc = out1.pc
        /\ err = out1.err
        /\ texts = out1.texts
        /\ root = out1.root
        /\ inputs = out1.inputs

\* both runs formatted a screen of a leaf, which moves the cursor, and a group,
\* which fills the column map, after the first run had registered components
C6_Witness ==
    /\ SecondOver
    /\ pc = "formatted"
    /\ Len(texts) >= 3
    /\ \E i, j \in 1..Len(inputs) :
           inputs[i].kind = "Group" /\ inputs[j].kind \notin {"Group", "SignalRef"}
    /\ \E n \in Names : components[n] # NoComp

\* C9: split(width, spacing) fails exactly when width + spacing >= self.w;
\* otherwise left keeps x and is width wide, right starts width + spacing after
\* left.x and takes the rest of the width, both keep y and h, and self is as it
\* was before the call.
C9_Split ==
    (pc = "idle" /\ sp.called) =>
        /\ (sp.res.err # "none") <=> (sp.width + sp.spacing >= sp.self.w)
        /\ sp.res.err # "none" => sp.res.err = "AssertionError"
        /\ sp.res.self = sp.self
        /\ sp.res.err = "none" =>
               /\ sp.res.left.x = sp.self.x
               /\ sp.res.left.w = sp.width
               /\ sp.res.right.x = sp.res.left.x + sp.width + sp.spacing
               /\ sp.res.right.w = sp.self.w - sp.width - sp.spacing
               /\ sp.res.left.y = sp.self.y /\ sp.res.right.y = sp.self.y
               /\ sp.res.left.h = sp.self.h /\ sp.res.right.h = sp.self.h

\* a split that left one unit to the right rectangle, after a spacing
C9_Witness ==
    /\ pc = "idle" /\ sp.called
    /\ sp.res.err = "none"
    /\ sp.spacing > 0 /\ sp.width > 0 /\ sp.self.x > 0
    /\ sp.res.right.w = 1

----------------------------------------------------------------------------
(* Properties of the template catalogs *)

\* the value fragment out holds for item, "" when it holds none or several
ValueOf(kind, out, item) ==
    IF kind = "bob"
    THEN IF xpath_first(out, item) # 0 THEN out.children[xpath_first(out, item)].text
         ELSE ""
    ELSE IF Cardinality({i \in 1..Len(out) : out[i].item = item}) = 1
    THEN LET i == CHOOSE i \in 1..Len(out) : out[i].item = item IN out[i].value[1].s
    ELSE ""

\* C7: set leaves the fragment it is given as it was, whether it returns or
\* raises: a fragment a caller got from search(key) stays what search(key)
\* returns, the catalog and its screen fragment stay what the document made
\* them, and what set returns is another fragment, which holds the values set.
C7_SetLeavesInput ==
    /\ catalog = Template(doc.kind, doc.text)
    /\ \A k \in Keys : held[k].have => held[k].frag = search(catalog, k).out
    /\ tres.op = "set" =>
           /\ tres.key # "screen" => held[tres.key].frag = tres.before
           /\ tres.key = "screen" => catalog.screen = tres.before
           /\ tres.have <=> tres.err = "none"
           /\ tres.have =>
                  \A i \in 1..Len(with_bounds(catalog.kind, tres.bounds, tres.props)) :
                      LET p == with_bounds(catalog.kind, tres.bounds, tres.props)[i]
                      IN ValueOf(catalog.kind, tres.out, p.item) = str_(p.value)

\* a set of two properties that raised at the second, after the first was set,
\* on a fragment a caller holds
C7_Witness ==
    /\ tres.op = "set"
    /\ tres.key = "TextUpdate"
    /\ tres.err # "none"
    /\ Len(tres.props) = 2
    /\ ValueOf(catalog.kind, tres.before, "x") = "0"
    /\ held[tres.key].have

MaxKids == 8
MaxDepth == 3

\* the element at path p under e (NoElem when there is none)
RECURSIVE At(_, _)
At(e, p) ==
    IF p = <<>> THEN e
    ELSE IF Head(p) \in 1..Len(e.children) THEN At(e.children[Head(p)], Tail(p))
    ELSE NoElem

\* what matches key in catalog T: widgets of an EDL or ADL catalog that hold
\* the word, name elements of a BOB catalog that say it
MatchesOf(T, key) ==
    IF T.kind = "bob"
    THEN {p \in UNION {[1..d -> 1..MaxKids] : d \in 1..MaxDepth} :
              At(T.tree, p).tag = "name" /\ At(T.tree, p).text = key}
    ELSE {i \in 1..Len(T.widgets) : re_search(key, T.widgets[i])}

\* out is what matches key in T: the widget, or the parent of the name element
IsMatch(T, key, out) ==
    IF T.kind = "bob"
    THEN \E p \in MatchesOf(T, key) :
             \/ out = At(T.tree, SubSeq(p, 1, Len(p) - 1))
             \/ out.tag = "display" /\ out = without_widgets(At(T.tree, <<>>))
    ELSE \E i \in MatchesOf(T, key) : out = T.widgets[i]

\* C8: search(key) returns a fragment when exactly one fragment of the catalog
\* matches key, and that fragment is the one returned; with no match or several
\* it raises an error that tells how many matched and the key, and the caller
\* gets no fragment.
C8_SearchUnique ==
    tres.op = "search" =>
        IF Cardinality(MatchesOf(catalog, tres.key)) = 1
        THEN /\ tres.err = "none"
             /\ tres.have
             /\ IsMatch(catalog, tres.key, tres.out)
             /\ held[tres.key].have
        ELSE /\ tres.err = "AssertionError"
             /\ tres.msg = [count |-> Cardinality(MatchesOf(catalog, tres.key)),
                            key |-> tres.key]
             /\ ~tres.have
             /\ ~held[tres.key].have

\* a search that several fragments match, after one that found its fragment
C8_Witness ==
    /\ tres.op = "search"
    /\ Cardinality(MatchesOf(catalog, tres.key)) = 2
    /\ tres.key = "TextUpdate"
    /\ held["Label"].have

----------------------------------------------------------------------------
(* Properties of group() and of the tree screen() returns *)

NotGrid(g) == g.layout.type # "Grid"
HasGroupChild(g) == \E i \in 1..Len(g.children) : g.children[i].kind = "Group"

\* C11: group() of a group whose layout is not a grid, or that has a child that
\* is a Group, raises (the assertion for the layout, NotImplementedError for the
\* child when the children before it were laid out) and no factory comes of it:
\* the top level widgets and the column map are what they were.
C11_GroupFails ==
    (last.op = "group" /\ (NotGrid(last.c) \/ HasGroupChild(last.c))) =>
        /\ pc = "error"
        /\ err # "none"
        /\ NotGrid(last.c) => err = "AssertionError" /\ last.calls = <<>>
        /\ (~NotGrid(last.c) /\ \A k \in 1..Len(last.calls) : last.calls[k].err = "none")
               => err = "NotImplementedError"
        /\ screen_widgets = last.S.screen_widgets
        /\ columns = last.S.columns

\* a group whose first child was laid out before the child that is a Group
C11_Witness ==
    /\ last.op = "group"
    /\ HasGroupChild(last.c)
    /\ Len(last.calls) >= 1
    /\ last.calls[1].widgets # <<>>
    /\ err = "NotImplementedError"
    /\ last.S.screen_widgets # <<>>

\* C12 as claimed: format() leaves the bounds of the factory it is called on and
\* of every factory below it as screen() returned them.
C12_FormatKeepsBounds ==
    (last.op = "format") => root = last.root

\* C13 as claimed: component() yields, for every signal it is given, with a
\* label or without, at least one widget factory and at most three.
C13_OneToThree ==
    (last.op \in {"group", "leaf"}) =>
        \A k \in 1..Len(last.calls) :
            last.calls[k].err = "none" => Len(last.calls[k].first) \in 1..3

\* the column map d has exactly one entry for x, and it says y
Holds(d, x, y) ==
    /\ Cardinality({i \in 1..Len(d) : d[i].x = x}) = 1
    /\ \E i \in 1..Len(d) : d[i].x = x /\ d[i].y = y

\* what C14 says of the column map after the placement of a top level group
ColumnMapUpdated ==
    /\ Holds(columns, Placed.bounds.x,
             Placed.bounds.y + Placed.bounds.h + layout.spacing)
    /\ Holds(columns, max_x(screen_widgets, 0) + layout.spacing, 0)
    /\ \A i \in 1..Len(last.S.columns) :
           (last.S.columns[i].x # Placed.bounds.x /\ last.S.columns[i].y > 0)
               => Holds(columns, last.S.columns[i].x, last.S.columns[i].y)

min_x(widgets) ==
    CHOOSE m \in {widgets[i].bounds.x : i \in 1..Len(widgets)} :
        \A i \in 1..Len(widgets) : m <= widgets[i].bounds.x

min_y(widgets) ==
    CHOOSE m \in {widgets[i].bounds.y : i \in 1..Len(widgets)} :
        \A i \in 1..Len(widgets) : m <= widgets[i].bounds.y

\* the calls of make_component_widgets of the last iteration that made widgets
Rows == {k \in 1..Len(last.calls) : last.calls[k].widgets # <<>>}

\* what C15 says of the children of the group the last iteration placed: the
\* widgets of each child start at x = 0, the inner origin of the group, and the
\* row of a child starts at or below the bottom of the rows of those before it
SingleColumn ==
    /\ \A k \in Rows : min_x(last.calls[k].widgets) = 0
    /\ \A j, k \in Rows :
           j < k => min_y(last.calls[k].widgets) >= max_y(last.calls[j].widgets, 0)

NoWrapNoGap ==
    \A k \in 1..Len(last.calls) :
        ~last.calls[k].retried /\ last.calls[k].widgets # <<>>

Shifted(widgets, n) ==
    [i \in 1..Len(widgets) |->
        [widgets[i] EXCEPT !.bounds = [widgets[i].bounds EXCEPT !.x = @ + n]]]

\* what the call of make_component_widgets makes when it is given indent 0
Unindented(call, reg) ==
    make_component_widgets(layout, reg, call.args.c, call.args.bounds,
                           call.args.parent_bounds, call.args.add_label, 0).widgets

\* C16: the widgets made for a top level leaf, a SignalRef too, are those the
\* same call makes with indent 0, each moved right by group_widget_indent, with
\* y, w and h the same; the first widget of a child of a group is at the x of
\* the bounds the child was given.
C16_IndentOnce ==
    /\ LeafPlaced =>
           last.calls[1].widgets =
               Shifted(Unindented(last.calls[1], last.S.components),
                       layout.group_widget_indent)
    /\ GroupPlaced =>
           \A k \in 1..Len(last.calls) :
               /\ last.calls[k].args.group_widget_indent = 0
               /\ last.calls[k].first # <<>> =>
                      min_x(last.calls[k].first) = last.calls[k].args.bounds.x

\* the bounding box of the children of factory f, from the origin of f
BoundingBox(f) ==
    [f.bounds EXCEPT !.w = max_x(f.children, 0), !.h = max_y(f.children, 0)]

\* C17: a top level group that was placed is at the x and y of the column it
\* was made for; its h is that of the sizing function of the group factory at
\* the bounding box of its children (0 by 0 for no children), its w is that of
\* the sizing function plus group_width_offset.
C17_ShrinkWrap ==
    GroupPlaced =>
        /\ \E i \in 1..Len(last.S.columns) :
               /\ last.S.columns[i].x = Placed.bounds.x
               /\ last.S.columns[i].y = Placed.bounds.y
        /\ Placed.bounds.h = sized(fmt.group_sized, BoundingBox(Placed)).h
        /\ Placed.bounds.w =
               sized(fmt.group_sized, BoundingBox(Placed)).w + layout.group_width_offset

\* a group with children was placed below another with a sizing function that
\* adds a title and an offset that widens it
C17_Witness ==
    /\ GroupPlaced
    /\ Placed.children # <<>>
    /\ Placed.bounds.y > 0
    /\ layout.group_width_offset > 0
    /\ fmt.group_sized.name = "with_title"
    /\ Placed.bounds.h > max_y(Placed.children, 0)

\* C18: in the tree screen() returned, each widget at top level and each child
\* of a group ends at or above max_height, the height given to its parent, or
\* is at y = 0, and each top level group ends at or above max_height or is at
\* y = 0.
C18_HeightOrTop ==
    (last.op = "return") =>
        \A i \in 1..Len(root.children) :
            LET f == root.children[i] IN
            /\ f.bounds.y + f.bounds.h <= layout.max_height \/ f.bounds.y = 0
            /\ \A n \in 1..Len(f.children) :
                   \/ f.children[n].bounds.y + f.children[n].bounds.h <= layout.max_height
                   \/ f.children[n].bounds.y = 0

\* screen() returned a tree with a top level group at y = 0 that ends below
\* max_height, and another top level factory below the top row
C18_Witness ==
    /\ last.op = "return"
    /\ \E i \in 1..Len(root.children) :
           /\ root.children[i].cls = "group"
           /\ root.children[i].bounds.y = 0
           /\ root.children[i].bounds.h > layout.max_height
    /\ \E i \in 1..Len(root.children) : root.children[i].bounds.y > 0

\* the rectangles of factories a and b have a point in common
Overlap(a, b) ==
    /\ a.bounds.x < b.bounds.x + b.bounds.w
    /\ b.bounds.x < a.bounds.x + a.bounds.w
    /\ a.bounds.y < b.bounds.y + b.bounds.h
    /\ b.bounds.y < a.bounds.y + a.bounds.h

\* no widget of the list before overlaps a widget of the list made
Apart(before, made) ==
    \A i \in 1..Len(before) : \A n \in 1..Len(made) : ~Overlap(before[i], made[n])

\* the top level widgets that are not groups
LeafWidgets(widgets) == SelectSeq(widgets, LAMBDA w : w.cls # "group")

\* C19 for the children of a group: the widgets of two children do not overlap
GroupChildrenApart ==
    GroupPlaced =>
        \A j, k \in 1..Len(last.calls) :
            j < k => Apart(last.calls[j].widgets, last.calls[k].widgets)

\* C19 for the top level leaves: the widgets of a leaf overlap no widget of the
\* leaves placed before it
TopLeavesApart ==
    LeafPlaced => Apart(LeafWidgets(last.S.screen_widgets), last.calls[1].widgets)

\* C19: in one group, and among the top level leaves of a screen, the widgets
\* of two components do not overlap.
C19_ComponentsApart == GroupChildrenApart /\ TopLeavesApart

\* C20: what an iteration of screen() appends for a top level component, the
\* widgets of a leaf or the factory of a group, overlaps none of the top level
\* factories appended for the components before it.
C20_TopLevelApart ==
    /\ LeafPlaced => Apart(last.S.screen_widgets, last.calls[1].widgets)
    /\ GroupPlaced => Apart(last.S.screen_widgets, <<Placed>>)

====
